---- MODULE Spec2Model ----
(***************************************************************************)
(* Model of experiments/g2o-test.cpp: the pose-graph diagnostic driver.    *)
(*                                                                         *)
(* main() loads a g2o file into a factor graph and an initial estimate,    *)
(* prints the graph error, walks the factors printing for every            *)
(* BetweenFactor<Pose3> the difference between the measured and the        *)
(* predicted relative pose (in both orders of the two poses), runs the     *)
(* Levenberg-Marquardt optimizer and prints the final graph error.         *)
(*                                                                         *)
(* Poses are elements of SE(3).  The model keeps the sub-group whose       *)
(* rotations are quarter turns about the z axis and whose translations     *)
(* are integer vectors: on it the group operations are exact, and it is    *)
(* not commutative.  A translation norm is represented by its radicand     *)
(* (the norm is the square root of the number carried), a rotation norm    *)
(* in units of a quarter turn (pi/2).                                      *)
(***************************************************************************)
EXTENDS Integers, Sequences, FiniteSets

\* ---------------------------------------------------------------- bounds
\* largest x coordinate of an input pose
MaxCoord == 2
\* largest number of factors in a loaded graph
MaxFactors == 2

\* ------------------------------------------------------ gtsam::Pose3 algebra
\* A pose: q quarter turns about z (Rot3), then the translation (x, y, z).
Pose(q, x, y, z) == [q |-> q, x |-> x, y |-> y, z |-> z]

Identity == Pose(0, 0, 0, 0)

Translate(x, y, z) == Pose(0, x, y, z)

\* Rot3 * Point3: the vector (x, y, z) turned by q quarter turns about z.
Rotate(q, x, y, z) ==
    CASE q % 4 = 0 -> <<x, y, z>>
      [] q % 4 = 1 -> <<-y, x, z>>
      [] q % 4 = 2 -> <<-x, -y, z>>
      [] q % 4 = 3 -> <<y, -x, z>>

\* Pose3::operator*: (R1, t1) * (R2, t2) = (R1 R2, t1 + R1 t2).
Compose(A, B) ==
    LET v == Rotate(A.q, B.x, B.y, B.z)
    IN  Pose((A.q + B.q) % 4, A.x + v[1], A.y + v[2], A.z + v[3])

\* Faulty variant: the negated translation is not turned back by R^T.
Inverse_noRotation(A) == Pose((4 - A.q) % 4, -A.x, -A.y, -A.z)

\* Pose3::inverse: (R, t)^-1 = (R^T, -R^T t).
Inverse(A) ==
    LET qi == (4 - A.q) % 4
        v  == Rotate(qi, -A.x, -A.y, -A.z)
    IN  Pose(qi, v[1], v[2], v[3])

\* Faulty variant: the operands are exchanged, B.inverse() * A.
Between_reversed(A, B) == Compose(Inverse(B), A)

\* LieGroup::between: A.between(B) = A.inverse() * B.
Between(A, B) == Compose(Inverse(A), B)

\* diff.translation().norm(), carried as its radicand x^2 + y^2 + z^2.
TranslationNorm(P) == P.x * P.x + P.y * P.y + P.z * P.z

\* diff.rotation().xyz().norm(): the Euler angles are (0, 0, yaw) with yaw in
\* (-pi, pi], so the norm is |yaw|, here in quarter turns.
RotationNorm(P) ==
    CASE P.q = 0 -> 0
      [] P.q = 1 -> 1
      [] P.q = 2 -> 2
      [] P.q = 3 -> 1

\* ------------------------------------------------------ gtsam::Values
Keys == {0, 1}

\* Values::exists
Exists(values, key) == key \in DOMAIN values

\* Values::at<Pose3>; defined only when the key exists (it throws otherwise).
At(values, key) == values[key]

EmptyValues == [k \in {} |-> Identity]

\* ------------------------------------------------------ factors
BetweenFactor(key1, key2, measured) ==
    [kind |-> "between", key1 |-> key1, key2 |-> key2, measured |-> measured]

\* A factor of any other type (a unary factor on one key).
OtherFactor(key) ==
    [kind |-> "other", key1 |-> key, key2 |-> key, measured |-> Identity]

\* boost::dynamic_pointer_cast<BetweenFactor<Pose3>>(factor) is non-null.
IsBetween(factor) == factor.kind = "between"

\* NonlinearFactor::keys
FactorKeys(factor) ==
    IF IsBetween(factor) THEN {factor.key1, factor.key2} ELSE {factor.key1}

\* factor->error(values) reads every key of the factor with Values::at and
\* throws ValuesKeyDoesNotExist when one is absent.
FactorErrorThrows(factor, values) ==
    \E k \in FactorKeys(factor) : ~Exists(values, k)

\* graph.error(values) sums factor->error(values) over the factors.
GraphErrorThrows(g, values) ==
    \E k \in 1..Len(g) : FactorErrorThrows(g[k], values)

\* ------------------------------------------------------ the residual
\* Faulty variant: diff is measured * predicted instead of
\* measured.between(predicted).
ComputeResidual_composed(between, values) ==
    LET measured     == between.measured
        pose1        == At(values, between.key1)
        pose2        == At(values, between.key2)
        predicted    == Between(pose1, pose2)
        predicted_v2 == Between(pose2, pose1)
        diff         == Compose(measured, predicted)
        diff_v2      == Between(measured, predicted_v2)
    IN  [predicted |-> predicted, predicted_v2 |-> predicted_v2,
         diff |-> diff, diff_v2 |-> diff_v2]

\* Faulty variant: predicted_v2 repeats pose1.between(pose2).
ComputeResidual_v2Copied(between, values) ==
    LET measured     == between.measured
        pose1        == At(values, between.key1)
        pose2        == At(values, between.key2)
        predicted    == Between(pose1, pose2)
        predicted_v2 == Between(pose1, pose2)
        diff         == Between(measured, predicted)
        diff_v2      == Between(measured, predicted_v2)
    IN  [predicted |-> predicted, predicted_v2 |-> predicted_v2,
         diff |-> diff, diff_v2 |-> diff_v2]

\* The locals of the loop body for a BetweenFactor<Pose3>.
ComputeResidual(between, values) ==
    LET measured     == between.measured
        pose1        == At(values, between.key1)
        pose2        == At(values, between.key2)
        predicted    == Between(pose1, pose2)
        predicted_v2 == Between(pose2, pose1)
        diff         == Between(measured, predicted)
        diff_v2      == Between(measured, predicted_v2)
    IN  [predicted |-> predicted, predicted_v2 |-> predicted_v2,
         diff |-> diff, diff_v2 |-> diff_v2]

\* What the loop prints for factor number n (counted from 0, as in the code).
FactorReport(n, factor, values) ==
    IF IsBetween(factor)
    THEN LET r == ComputeResidual(factor, values)
         IN  [type |-> "Residual", factor |-> n,
              key1 |-> factor.key1, key2 |-> factor.key2,
              translation    |-> TranslationNorm(r.diff),
              rotation       |-> RotationNorm(r.diff),
              translation_v2 |-> TranslationNorm(r.diff_v2),
              rotation_v2    |-> RotationNorm(r.diff_v2)]
    ELSE [type |-> "NotBetween", factor |-> n]

\* ------------------------------------------------------ what a file can hold
FilePoses == {Identity, Translate(1, 0, 0), Pose(1, 0, 1, 0)}

FileFactors ==
    {BetweenFactor(k1, k2, m) : k1 \in Keys, k2 \in Keys, m \in FilePoses}
    \cup {OtherFactor(k) : k \in Keys}

SeqsUpTo(S, n) == UNION {[1..k -> S] : k \in 0..n}

FileGraphs == SeqsUpTo(FileFactors, MaxFactors)

ValuesOver(P) == UNION {[D -> P] : D \in SUBSET Keys}

FileValues == ValuesOver(FilePoses)

\* ------------------------------------------------------ state of main()
VARIABLES
    pc,         \* position in main
    readGraph,  \* the GraphAndValues pair readG2o returned
    graph,      \* NonlinearFactorGraph graph
    initial,    \* Values initial
    i,          \* loop counter
    out,        \* what has been written to std::cout
    optimizer,  \* the arguments the LevenbergMarquardtOptimizer was built from
    result,     \* Values result
    error       \* the exception that ended the run, if any

vars == <<pc, readGraph, graph, initial, i, out, optimizer, result, error>>

NoGraph == [first |-> <<>>, second |-> EmptyValues]

NoOptimizer == [constructed |-> FALSE, graph |-> <<>>, initial |-> EmptyValues]

Init ==
    /\ pc = "start"
    /\ readGraph = NoGraph
    /\ graph = <<>>
    /\ initial = EmptyValues
    /\ i = 0
    /\ out = <<>>
    /\ optimizer = NoOptimizer
    /\ result = EmptyValues
    /\ error = "none"

\* An exception nothing catches leaves main: std::terminate ends the run.
Throw(what) ==
    /\ pc' = "aborted"
    /\ error' = what

\* Faulty variant: the loader's failure is recorded and the run goes on with
\* an empty graph.
ReadG2oThrows_swallowed ==
    /\ pc = "start"
    /\ pc' = "initial_error"
    /\ error' = "LoadError"
    /\ UNCHANGED <<readGraph, graph, initial, i, out, optimizer, result>>

\* readG2o throws (the file cannot be opened or parsed).
ReadG2oThrows ==
    /\ pc = "start"
    /\ Throw("LoadError")
    /\ UNCHANGED <<readGraph, graph, initial, i, out, optimizer, result>>

\* readG2o returns; graph and initial are copied out of the pair.
ReadG2o ==
    /\ pc = "start"
    /\ \E g \in FileGraphs, v \in FileValues :
          /\ readGraph' = [first |-> g, second |-> v]
          /\ graph' = g
          /\ initial' = v
    /\ pc' = "initial_error"
    /\ UNCHANGED <<i, out, optimizer, result, error>>

\* std::cout << "Initial Error: " << graph.error(initial)
InitialError ==
    /\ pc = "initial_error"
    /\ IF GraphErrorThrows(graph, initial)
       THEN /\ Throw("ValuesKeyDoesNotExist")
            /\ UNCHANGED out
       ELSE /\ out' = Append(out, [type |-> "InitialError", values |-> initial])
            /\ pc' = "loop"
            /\ UNCHANGED error
    /\ UNCHANGED <<readGraph, graph, initial, i, optimizer, result>>

\* Faulty variant: a factor that is no BetweenFactor<Pose3> ends the loop.
DiagnoseFactor_breakOnOther ==
    /\ pc = "loop"
    /\ i < Len(graph)
    /\ LET factor == graph[i + 1]
       IN  IF FactorErrorThrows(factor, initial)
           THEN /\ Throw("ValuesKeyDoesNotExist")
                /\ UNCHANGED <<i, out>>
           ELSE /\ out' = Append(out, FactorReport(i, factor, initial))
                /\ i' = IF IsBetween(factor) THEN i + 1 ELSE Len(graph)
                /\ UNCHANGED <<pc, error>>
    /\ UNCHANGED <<readGraph, graph, initial, optimizer, result>>

\* Faulty variant: the iteration overwrites the estimate of key1.
DiagnoseFactor_insertsPose ==
    /\ pc = "loop"
    /\ i < Len(graph)
    /\ LET factor == graph[i + 1]
       IN  IF FactorErrorThrows(factor, initial)
           THEN /\ Throw("ValuesKeyDoesNotExist")
                /\ UNCHANGED <<i, out, initial>>
           ELSE /\ out' = Append(out, FactorReport(i, factor, initial))
                /\ i' = i + 1
                /\ initial' = [initial EXCEPT ![factor.key1] = Identity]
                /\ UNCHANGED <<pc, error>>
    /\ UNCHANGED <<readGraph, graph, optimizer, result>>

\* One iteration of the loop over the factors.
DiagnoseFactor ==
    /\ pc = "loop"
    /\ i < Len(graph)
    /\ LET factor == graph[i + 1]
       IN  IF FactorErrorThrows(factor, initial)
           THEN /\ Throw("ValuesKeyDoesNotExist")
                /\ UNCHANGED <<i, out>>
           ELSE /\ out' = Append(out, FactorReport(i, factor, initial))
                /\ i' = i + 1
                /\ UNCHANGED <<pc, error>>
    /\ UNCHANGED <<readGraph, graph, initial, optimizer, result>>

\* The loop condition i < graph.size() fails.
LoopExit ==
    /\ pc = "loop"
    /\ i >= Len(graph)
    /\ pc' = "optimize"
    /\ UNCHANGED <<readGraph, graph, initial, i, out, optimizer, result, error>>

\* What optimizer.optimize() can return: an estimate of the same keys.
OptimizerResults(values) == [DOMAIN values -> FilePoses]

\* LevenbergMarquardtOptimizer optimizer(graph, initial, params);
\* Values result = optimizer.optimize();
Optimize ==
    /\ pc = "optimize"
    /\ optimizer' = [constructed |-> TRUE, graph |-> graph, initial |-> initial]
    /\ result' \in OptimizerResults(initial)
    /\ pc' = "final_error"
    /\ UNCHANGED <<readGraph, graph, initial, i, out, error>>

\* Faulty variant: the final error is evaluated on initial.
FinalError_onInitial ==
    /\ pc = "final_error"
    /\ out' = Append(out, [type |-> "FinalError", values |-> initial])
    /\ pc' = "done"
    /\ UNCHANGED <<readGraph, graph, initial, i, optimizer, result, error>>

\* std::cout << "Final Error: " << graph.error(result)
FinalError ==
    /\ pc = "final_error"
    /\ out' = Append(out, [type |-> "FinalError", values |-> result])
    /\ pc' = "done"
    /\ UNCHANGED <<readGraph, graph, initial, i, optimizer, result, error>>

Next ==
    \/ ReadG2oThrows
    \/ ReadG2o
    \/ InitialError
    \/ DiagnoseFactor
    \/ LoopExit
    \/ Optimize
    \/ FinalError

Spec == Init /\ [][Next]_vars

\* ------------------------------------------------------ the residual alone
\* Input poses of the residual computation.
PoseSet ==
    {Pose(q, x, y, z) : q \in 0..3, x \in 0..MaxCoord, y \in 0..1, z \in 0..1}

\* main() right after loading a file of two vertices and the two edges
\* 0 -> 1 and 1 -> 0 carrying the same measurement.
InitResidual ==
    /\ pc = "initial_error"
    /\ \E pose1 \in PoseSet, pose2 \in PoseSet, measured \in PoseSet :
          /\ graph = <<BetweenFactor(0, 1, measured), BetweenFactor(1, 0, measured)>>
          /\ initial = [k \in Keys |-> IF k = 0 THEN pose1 ELSE pose2]
    /\ readGraph = [first |-> graph, second |-> initial]
    /\ i = 0
    /\ out = <<>>
    /\ optimizer = NoOptimizer
    /\ result = EmptyValues
    /\ error = "none"

NextResidual ==
    \/ InitialError
    \/ DiagnoseFactor

SpecResidual == InitResidual /\ [][NextResidual]_vars

\* ------------------------------------------------------ helpers of the claims
FactorReportTypes == {"Residual", "NotBetween", "MissingPoseKey"}

IsFactorReport(r) == r.type \in FactorReportTypes

\* The per-factor reports written so far, in order.
FactorReports == SelectSeq(out, IsFactorReport)

Loaded == pc # "start" /\ error # "LoadError"

Stopped == pc \in {"done", "aborted"}

AllKeysExist == ~GraphErrorThrows(graph, initial)

\* The factor a report is about.
FactorOf(r) == graph[r.factor + 1]

ResidualReports == {k \in 1..Len(out) : out[k].type = "Residual"}

\* ------------------------------------------------------ claims
\* C1: when a between-constraint names a pose key the estimate lacks, a
\* MissingPoseKey outcome is reported for that constraint only and the pass
\* goes on: once the run has stopped, every factor of the graph has its
\* report, a MissingPoseKey one exactly for the constraints with an absent key.
C1_MissingKeyReportedAndPassContinues ==
    (Loaded /\ Stopped) =>
        /\ Len(FactorReports) = Len(graph)
        /\ \A k \in 1..Len(FactorReports) :
              /\ FactorReports[k].factor = k - 1
              /\ (FactorReports[k].type = "MissingPoseKey")
                    <=> (IsBetween(graph[k]) /\ FactorErrorThrows(graph[k], initial))

\* C2: when every factor's keys exist, the loop reports the factors 0, 1, ...
\* once each and in order, a residual (forward and backward pair) for a
\* BetweenFactor<Pose3> and a skip for any other factor; no factor stops the
\* pass: past the loop every factor has been reported.
C2_EveryFactorReportedInOrder ==
    (Loaded /\ AllKeysExist) =>
        /\ pc # "aborted"
        /\ Len(FactorReports) = i
        /\ i <= Len(graph)
        /\ pc \in {"optimize", "final_error", "done"} => i = Len(graph)
        /\ \A k \in 1..Len(FactorReports) :
              LET r == FactorReports[k]
              IN  /\ r.factor = k - 1
                  /\ IF IsBetween(graph[k])
                     THEN /\ r.type = "Residual"
                          /\ {"translation", "rotation", "translation_v2",
                              "rotation_v2"} \subseteq DOMAIN r
                          /\ r.key1 = graph[k].key1
                          /\ r.key2 = graph[k].key2
                     ELSE r.type = "NotBetween"

C2_Witness ==
    /\ pc = "done"
    /\ Len(graph) = 2
    /\ ~IsBetween(graph[1])
    /\ IsBetween(graph[2])
    /\ Len(FactorReports) = 2
    /\ FactorReports[2].type = "Residual"

InPass == pc \in {"initial_error", "loop"}

\* C3: from the end of loading on, the estimate and the graph (every
\* constraint's key1, key2 and measured) are what the loader returned, and a
\* step of the pass changes nothing but the output, the loop counter and the
\* position in main.
C3_ReadOnly ==
    /\ [](Loaded => (graph = readGraph.first /\ initial = readGraph.second))
    /\ [][InPass => UNCHANGED <<readGraph, graph, initial, optimizer, result>>]_vars

C3_Witness ==
    /\ pc = "optimize"
    /\ Len(graph) = 2
    /\ Len(FactorReports) = 2
    /\ IsBetween(graph[1])
    /\ initial[graph[1].key1] # Identity

\* C4: a constraint whose measured transform is exactly
\* between(pose1, pose2) has the identity as forward difference, and the
\* forward translation and rotation residuals reported for it are 0.
C4_ExactMeasurementForwardZero ==
    \A k \in ResidualReports :
        LET f == FactorOf(out[k])
        IN  f.measured = Between(At(initial, f.key1), At(initial, f.key2)) =>
                /\ ComputeResidual(f, initial).diff = Identity
                /\ out[k].translation = 0
                /\ out[k].rotation = 0

C4_Witness ==
    /\ initial = [k \in Keys |-> IF k = 0 THEN Identity ELSE Translate(1, 0, 0)]
    /\ graph[1].measured = Translate(1, 0, 0)
    /\ \E k \in ResidualReports :
          /\ out[k].factor = 0
          /\ out[k].translation = 0
          /\ out[k].rotation = 0

\* C5: two constraints with the same measured transform and exchanged
\* end points have exchanged residuals: the forward pair of one is the backward
\* pair of the other.
C5_SwapExchangesPairs ==
    \A j \in ResidualReports, k \in ResidualReports :
        LET f == FactorOf(out[j])
            g == FactorOf(out[k])
        IN  (f.key1 = g.key2 /\ f.key2 = g.key1 /\ f.measured = g.measured) =>
                /\ out[j].translation = out[k].translation_v2
                /\ out[j].rotation = out[k].rotation_v2
                /\ out[j].translation_v2 = out[k].translation
                /\ out[j].rotation_v2 = out[k].rotation

C5_Witness ==
    /\ Cardinality(ResidualReports) = 2
    /\ \E j \in ResidualReports, k \in ResidualReports :
          /\ out[j].factor = 0
          /\ out[k].factor = 1
          /\ initial[0] # initial[1]
          /\ out[j].translation # out[j].translation_v2
          /\ out[j].rotation # out[j].rotation_v2

IsTranslation(P) == P.q = 0

\* C6: for poses and a measurement that are pure translations t1, t2 and tm
\* the forward translation residual is the norm of (t2 - t1) - tm and the
\* forward rotation residual is 0; identity, translate(1,0,0) and a measured
\* translate(2,0,0) give the norm 1.
C6_TranslationResidual ==
    \A k \in ResidualReports :
        LET f  == FactorOf(out[k])
            p1 == initial[f.key1]
            p2 == initial[f.key2]
            m  == f.measured
            dx == (p2.x - p1.x) - m.x
            dy == (p2.y - p1.y) - m.y
            dz == (p2.z - p1.z) - m.z
        IN  (IsTranslation(p1) /\ IsTranslation(p2) /\ IsTranslation(m)) =>
                /\ out[k].translation = dx * dx + dy * dy + dz * dz
                /\ out[k].rotation = 0
                /\ (p1 = Identity /\ p2 = Translate(1, 0, 0)
                      /\ m = Translate(2, 0, 0)) => out[k].translation = 1

C6_Witness ==
    /\ initial = [k \in Keys |-> IF k = 0 THEN Identity ELSE Translate(1, 0, 0)]
    /\ graph[1].measured = Translate(2, 0, 0)
    /\ \E k \in ResidualReports :
          /\ out[k].factor = 0
          /\ out[k].translation = 1
          /\ out[k].rotation = 0

\* C7: when the loader throws the run ends there: nothing has been printed
\* (no initial error, no factor report, no final error) and the optimizer
\* has not been built.
C7_LoadFailureIsFatal ==
    error = "LoadError" =>
        /\ pc = "aborted"
        /\ out = <<>>
        /\ ~optimizer.constructed
        /\ i = 0

C7_Witness == error = "LoadError" /\ pc = "aborted"

\* C8: for every graph that loads, the pass reaches the end of the factor
\* list after exactly graph.size() iterations: a run that loaded a graph and
\* has stopped has made one iteration per factor.
C8_PassCompletes ==
    (Loaded /\ Stopped) =>
        /\ i = Len(graph)
        /\ Len(FactorReports) = Len(graph)

\* C9: the initial graph error is printed first, before any factor report;
\* the optimizer is built only after the last factor's report, from the graph
\* and the estimate as loaded; the final graph error is printed once, last,
\* after the optimizer returned, and is the error of the optimizer's result.
C9_Ordering ==
    /\ \A k \in 1..Len(out) : (out[k].type = "InitialError") <=> (k = 1)
    /\ Len(out) >= 1 => out[1].values = readGraph.second
    /\ optimizer.constructed =>
          /\ Len(FactorReports) = Len(graph)
          /\ optimizer.graph = readGraph.first
          /\ optimizer.initial = readGraph.second
          /\ result \in OptimizerResults(readGraph.second)
    /\ \A k \in 1..Len(out) :
          out[k].type = "FinalError" =>
              /\ k = Len(out)
              /\ k = Len(graph) + 2
              /\ optimizer.constructed
              /\ out[k].values = result
    /\ pc = "done" => (Len(out) = Len(graph) + 2 /\ out[Len(out)].type = "FinalError")
    /\ pc # "done" => \A k \in 1..Len(out) : out[k].type # "FinalError"

C9_Witness ==
    /\ pc = "done"
    /\ Len(graph) = 2
    /\ result # initial
    /\ out[Len(out)].type = "FinalError"

\* C10: predictedBackward = between(pose2, pose1) is the inverse of
\* predictedForward = between(pose1, pose2), so the backward difference is
\* between(measured, inverse(predictedForward)); when measured equals
\* predictedForward the backward difference is the identity only if measured
\* composed with itself is the identity.
C10_BackwardIsInverse ==
    \A k \in ResidualReports :
        LET f == FactorOf(out[k])
            r == ComputeResidual(f, initial)
        IN  /\ Compose(r.predicted, r.predicted_v2) = Identity
            /\ Compose(r.predicted_v2, r.predicted) = Identity
            /\ r.predicted_v2 = Inverse(r.predicted)
            /\ r.diff_v2 = Between(f.measured, Inverse(r.predicted))
            /\ (f.measured = r.predicted /\ r.diff_v2 = Identity) =>
                  Compose(f.measured, f.measured) = Identity

C10_Witness ==
    \E k \in ResidualReports :
        LET f == FactorOf(out[k])
            r == ComputeResidual(f, initial)
        IN  /\ f.measured = r.predicted
            /\ r.predicted.q = 1
            /\ r.predicted # Inverse_noRotation(r.predicted_v2)
            /\ r.diff_v2 # Identity
            /\ out[k].translation = 0
            /\ out[k].translation_v2 # 0

====
